---- MODULE Spec2Model ----
(***************************************************************************)
(* Model of the Iroquois OAC acquisition pipeline:                         *)
(*   fetch_iroquois_oac.py  (backfill into a CSV file),                    *)
(*   update_db.py           (daily incremental updater into the store),    *)
(*   load_csv_to_supabase.py (bulk loader, numeric coercion).              *)
(*                                                                         *)
(* Text is a sequence of atoms.  An atom is a one-character string         *)
(* ("1", ",", " ") or a word that no operation of the code looks into      *)
(* ("gas_date", "Delivery").  Python values are tagged records:            *)
(*   [t |-> "str", s |-> text], [t |-> "int", v |-> n],                    *)
(*   [t |-> "float", ...], [t |-> "null"].                                 *)
(* Dates are day numbers, day 1 being START_DATE (2010-01-01).             *)
(***************************************************************************)
EXTENDS Integers, Sequences, FiniteSets, TLC

VARIABLES
    script,         \* which program runs: "backfill" | "updater" | "loader" | "none"
    libJsonErr,     \* base class of the JSON decode error of the installed requests
    today,          \* date.today()
    runs,           \* number of program runs started so far
    pc,             \* "idle" | "fetch" | "sink" | "batch" | "done" | "killed" | "aborted" | "exited"
    exc,            \* the uncaught exception of an aborted run, or "none"
    file,           \* OUTPUT_FILE as the operating system holds it: [exists, lines]
    buf,            \* lines written to fh and not yet flushed
    store,          \* the remote table: a set of rows, one per conflict key
    todo,           \* the list of dates of the running main loop
    idx,            \* position in todo of the date being processed (1-based)
    attempt,        \* fetch_day: the loop variable `attempt`
    nreq,           \* fetch_day: requests issued by the current call
    nfail,          \* fetch_day: attempts of the current call that ended in RequestException
    sleeps,         \* fetch_day: the backoff sleeps of the current call, in order
    lastResp,       \* the answer the endpoint gave to the latest request of the call
    records,        \* what fetch_day returned to the main loop
    returned,       \* what fetch_day returned for each date of the current run, in order
    fetched,        \* the dates fetch_day was called for in the current run, in order
    landing,        \* whether the current run visited the landing page
    delays,         \* number of DELAY_SECONDS sleeps of the current run
    rowsWritten,    \* rows_written / total_written of the current run
    upserts,        \* the upsert calls of the current run, in order
    fileAtStart,    \* the file as it was when the current run started
    coveredAtStart, \* whether every date of [START_DATE, today] had a row then
    wasKilled,      \* whether some earlier run was terminated from outside
    creds,          \* what get_client of the current run found: [read, url, key]
    rows,           \* loader: what load_csv returned
    batchStart,     \* loader: the loop variable `i` of upsert_batches
    written,        \* loader: upsert_batches' count of rows in batches that succeeded
    errors,         \* loader: upsert_batches' count of rows in batches that failed
    batchOk,        \* loader: for each upsert call of the run, whether it succeeded
    nin,            \* the raw value given to the numeric normalizers
    nout            \* what the numeric normalizers made of it

vars == << script, libJsonErr, today, runs, pc, exc, file, buf, store, todo, idx,
           attempt, nreq, nfail, sleeps, lastResp, records, returned, fetched,
           landing, delays, rowsWritten, upserts, fileAtStart, coveredAtStart, wasKilled,
           creds, rows, batchStart, written, errors, batchOk, nin, nout >>

loaderVars == << rows, batchStart, written, errors, batchOk >>

mainVars == << script, libJsonErr, today, runs, pc, exc, file, buf, store, todo, idx,
               attempt, nreq, nfail, sleeps, lastResp, records, returned, fetched,
               landing, delays, rowsWritten, upserts, fileAtStart, coveredAtStart, wasKilled,
               creds, rows, batchStart, written, errors, batchOk >>

(***************************************************************************)
(* Bounds of the model.                                                    *)
(***************************************************************************)
MaxDay == 2
MaxRuns == 3
MaxLen == 3
MaxRecs == 2
MaxRows == 1200

(***************************************************************************)
(* Program constants.                                                      *)
(***************************************************************************)
START_DATE == 1
MAX_RETRIES == 4
LOOKBACK_DAYS == 3
\* DELAY_SECONDS = 0.5, in tenths of a second
DELAY_SECONDS == 5
BATCH_SIZE == 500

CSV_COLUMNS ==
    << "gas_date", "Posting Date", "Posting Time", "Loc", "Loc Name",
       "Loc/QTI Desc", "Loc Purp Desc", "Flow Ind Desc", "Meas Basis Desc",
       "IT Indicator", "All Qty Avail", "Design Capacity",
       "Operating Capacity", "Total Scheduled Quantity", "OAC" >>

DB_COLUMNS ==
    << "gas_date", "posting_date", "posting_time", "loc", "loc_name",
       "loc_qti_desc", "loc_purp_desc", "flow_ind_desc", "meas_basis_desc",
       "it_indicator", "all_qty_avail", "design_capacity",
       "operating_capacity", "total_scheduled_quantity", "oac" >>

\* COL_MAP of update_db.py: the i-th source label maps to the i-th store column
\* (position 1, gas_date, is set by fetch_day itself).
COL_MAP == [i \in 2..15 |-> << CSV_COLUMNS[i], DB_COLUMNS[i] >>]

NUMERIC_COLS ==
    { "design_capacity", "operating_capacity", "total_scheduled_quantity",
      "oac", "loc" }

(***************************************************************************)
(* Python values and text.                                                 *)
(***************************************************************************)
PyStr(s) == [t |-> "str", s |-> s]
PyInt(n) == [t |-> "int", v |-> n]
PyNone == [t |-> "null"]

Digit == { "0", "1", "2", "3", "4", "5", "6", "7", "8", "9" }

DigitVal(c) ==
    CASE c = "0" -> 0 [] c = "1" -> 1 [] c = "2" -> 2 [] c = "3" -> 3
      [] c = "4" -> 4 [] c = "5" -> 5 [] c = "6" -> 6 [] c = "7" -> 7
      [] c = "8" -> 8 [] c = "9" -> 9

DigitChar(n) ==
    CASE n = 0 -> "0" [] n = 1 -> "1" [] n = 2 -> "2" [] n = 3 -> "3"
      [] n = 4 -> "4" [] n = 5 -> "5" [] n = 6 -> "6" [] n = 7 -> "7"
      [] n = 8 -> "8" [] n = 9 -> "9"

Front(s) == SubSeq(s, 1, Len(s) - 1)

SetMin(S) == CHOOSE x \in S : \A y \in S : x <= y
SetMax(S) == CHOOSE x \in S : \A y \in S : x >= y

\* str.replace(",", "")
RemoveCommas(s) == SelectSeq(s, LAMBDA c : c # ",")

\* str.strip()
Strip(s) ==
    LET keep == { i \in 1..Len(s) : s[i] # " " }
    IN  IF keep = {} THEN << >> ELSE SubSeq(s, SetMin(keep), SetMax(keep))

IsDigits(s) == Len(s) > 0 /\ \A i \in 1..Len(s) : s[i] \in Digit

HasSign(s) == Len(s) > 0 /\ s[1] \in { "+", "-" }
Unsigned(s) == IF HasSign(s) THEN Tail(s) ELSE s

RECURSIVE DigitsVal(_)
DigitsVal(ds) ==
    IF ds = << >> THEN 0 ELSE 10 * DigitsVal(Front(ds)) + DigitVal(ds[Len(ds)])

\* int(s) succeeds: optional sign, then decimal digits
IntParses(s) == IsDigits(Unsigned(s))

IntValue(s) ==
    IF HasSign(s) /\ s[1] = "-" THEN 0 - DigitsVal(Unsigned(s)) ELSE DigitsVal(Unsigned(s))

\* float(s) succeeds: optional sign, digits with at most one point, one digit at least
FloatParses(s) ==
    LET u == Unsigned(s)
        dots == { i \in 1..Len(u) : u[i] = "." }
    IN  /\ Cardinality(dots) <= 1
        /\ \A i \in 1..Len(u) : u[i] \in Digit \cup { "." }
        /\ \E i \in 1..Len(u) : u[i] \in Digit

RECURSIVE DropTrailingZeros(_)
DropTrailingZeros(ds) ==
    IF ds # << >> /\ ds[Len(ds)] = "0" THEN DropTrailingZeros(Front(ds)) ELSE ds

\* the float a literal denotes: sign, integer part, decimal digits
FloatValue(s) ==
    LET u == Unsigned(s)
        dots == { i \in 1..Len(u) : u[i] = "." }
        p == IF dots = {} THEN Len(u) + 1 ELSE SetMin(dots)
    IN  [ t |-> "float",
          neg |-> HasSign(s) /\ s[1] = "-",
          units |-> DigitsVal(SubSeq(u, 1, p - 1)),
          frac |-> DropTrailingZeros(SubSeq(u, p + 1, Len(u))) ]

RECURSIVE NatRepr(_)
NatRepr(n) ==
    IF n < 10 THEN << DigitChar(n) >> ELSE NatRepr(n \div 10) \o << DigitChar(n % 10) >>

\* str(n) of an int
IntRepr(n) == IF n < 0 THEN << "-" >> \o NatRepr(0 - n) ELSE NatRepr(n)

\* query_date.strftime("%Y-%m-%d"), for the days of January 2010
DateStr(d) == << "2010-01-", DigitChar(d \div 10), DigitChar(d % 10) >>

\* a truth test that takes only None for false
FalsyOnlyNone(v) == v.t = "null"

\* Python truthiness of a value (`val or None`)
Falsy(v) ==
    \/ v.t = "null"
    \/ v.t = "str" /\ v.s = << >>
    \/ v.t = "int" /\ v.v = 0
    \/ v.t = "float" /\ v.units = 0 /\ v.frac = << >>

(***************************************************************************)
(* The three numeric normalizers.                                          *)
(***************************************************************************)
\* fetch_iroquois_oac.clean_numeric: numeric strings lose commas and blanks
\* and stay strings
BackfillCleanNumeric(value) ==
    IF value.t = "str"
    THEN LET stripped == Strip(RemoveCommas(value.s))
         IN  IF IntParses(stripped) THEN PyStr(stripped)
             ELSE IF FloatParses(stripped) THEN PyStr(stripped)
             ELSE value
    ELSE value

CleanNumericNoCommaStrip(value) ==
    IF value.t = "str"
    THEN LET stripped == Strip(value.s)
         IN  IF IntParses(stripped) THEN PyInt(IntValue(stripped))
             ELSE IF FloatParses(stripped) THEN FloatValue(stripped)
             ELSE IF value # PyStr(<< >>) THEN value ELSE PyNone
    ELSE IF value # PyStr(<< >>) THEN value ELSE PyNone

\* update_db.clean_numeric
clean_numeric(value) ==
    IF value.t = "str"
    THEN LET stripped == Strip(RemoveCommas(value.s))
         IN  IF IntParses(stripped) THEN PyInt(IntValue(stripped))
             ELSE IF FloatParses(stripped) THEN FloatValue(stripped)
             ELSE IF value # PyStr(<< >>) THEN value ELSE PyNone
    ELSE IF value # PyStr(<< >>) THEN value ELSE PyNone

\* load_csv_to_supabase.coerce_numeric
coerce_numeric(val) ==
    IF val = PyStr(<< >>) \/ val = PyNone THEN PyNone
    ELSE IF val.t = "str"
    THEN LET stripped == Strip(RemoveCommas(val.s))
         IN  IF IntParses(stripped) THEN PyInt(IntValue(stripped))
             ELSE IF FloatParses(stripped) THEN FloatValue(stripped)
             ELSE val
    ELSE val

(***************************************************************************)
(* Raw records, JSON bodies and endpoint answers.                          *)
(* A raw record is a function from source labels to values.  A JSON body   *)
(* is a list, a dict (keys and values in document order) or a scalar.      *)
(***************************************************************************)
NonDict == [nondict |-> TRUE]
IsDict(e) == "nondict" \notin DOMAIN e

RawRec(loc, purp) ==
    ("Loc" :> loc) @@ ("Loc Name" :> PyStr(<< "Station" >>))
    @@ ("Loc Purp Desc" :> PyStr(<< purp >>))
    @@ ("Flow Ind Desc" :> PyStr(<< "Delivery" >>))
    @@ ("Operating Capacity" :> PyStr(<< "1", ",", "5", "0", "0" >>))
    @@ ("OAC" :> PyInt(0)) @@ ("statusText" :> PyStr(<< "OK" >>))

WithStatus(rec, sc) == rec @@ ("statusCode" :> sc)

JList(items) == [j |-> "list", items |-> items]
JDict(keys, vals) == [j |-> "dict", keys |-> keys, vals |-> vals]
JScalar == [j |-> "scalar"]

ConnError == [kind |-> "conn_error"]
HttpError == [kind |-> "http_error"]
BadJson == [kind |-> "badjson"]
Json(raw) == [kind |-> "json", raw |-> raw]
NoResp == [kind |-> "none"]

\* rec.get(label, default)
Get(rec, label, default) == IF label \in DOMAIN rec THEN rec[label] ELSE default

\* v == 1 in Python
PyEqOne(v) ==
    \/ v.t = "int" /\ v.v = 1
    \/ v.t = "float" /\ ~v.neg /\ v.units = 1 /\ v.frac = << >>

\* a filter that takes only an explicit success code
StatusOkOnlyOne(rec) == PyEqOne(Get(rec, "statusCode", PyNone))

\* not (rec.get("statusCode") not in (None, 1))
StatusOk(rec) ==
    LET sc == Get(rec, "statusCode", PyNone)
    IN  sc = PyNone \/ PyEqOne(sc)

Range(f) == { f[i] : i \in DOMAIN f }

\* fetch_iroquois_oac.fetch_day, the `out` dict of one record
BackfillOut(d, rec) ==
    [ c \in Range(CSV_COLUMNS) |->
        IF c = "gas_date" THEN PyStr(DateStr(d))
        ELSE IF c \in DOMAIN rec THEN BackfillCleanNumeric(rec[c])
        ELSE PyStr(<< >>) ]

\* update_db.fetch_day, the `row` dict of one record
UpdaterRow(d, rec) ==
    [ c \in Range(DB_COLUMNS) |->
        IF c = "gas_date" THEN PyStr(DateStr(d))
        ELSE LET i == CHOOSE k \in DOMAIN COL_MAP : COL_MAP[k][2] = c
                 val == Get(rec, COL_MAP[i][1], PyStr(<< >>))
             IN  IF c \in NUMERIC_COLS THEN clean_numeric(val)
                 ELSE IF Falsy(val) THEN PyNone ELSE val ]

NormalizeRec(scr, d, rec) ==
    IF scr = "backfill" THEN BackfillOut(d, rec) ELSE UpdaterRow(d, rec)

\* the `for rec in records` loop of either fetch_day
RECURSIVE CleanLoop(_, _, _)
CleanLoop(scr, d, recs) ==
    IF recs = << >> THEN << >>
    ELSE LET rec == Head(recs)
             rest == CleanLoop(scr, d, Tail(recs))
         IN  IF ~StatusOk(rec) THEN rest
             ELSE << NormalizeRec(scr, d, rec) >> \o rest

Return(recs) == [tag |-> "return", recs |-> recs]
Raise(name, cls) == [tag |-> "raise", exc |-> name, cls |-> cls]

\* the loop above, with rec.get failing on an element that is no dict
CleanRecords(scr, d, recs) ==
    IF \E i \in 1..Len(recs) : ~IsDict(recs[i])
    THEN Raise("AttributeError", "other")
    ELSE Return(CleanLoop(scr, d, recs))

\* int(x) of a dict key
KeyParses(k) == IntParses(Strip(k))
KeyValue(k) == IntValue(Strip(k))

\* sorted(raw.keys(), key=lambda x: int(x)), as positions in document order
SortedIdx(keys) ==
    LET n == Len(keys)
        before(i, j) ==
            \/ KeyValue(keys[i]) < KeyValue(keys[j])
            \/ KeyValue(keys[i]) = KeyValue(keys[j]) /\ i < j
        rank(i) == 1 + Cardinality({ j \in 1..n : before(j, i) })
    IN  [ p \in 1..n |-> CHOOSE i \in 1..n : rank(i) = p ]

\* records = [raw[k] for k in sorted(raw.keys(), key=lambda x: int(x))
\*            if str(x).isdigit()]
\* sorted() calls int() on every key first; the condition then reads `x`, a
\* name bound only inside the lambda, on the first key it is evaluated for.
DictRecords(raw) ==
    IF \E i \in 1..Len(raw.keys) : ~KeyParses(raw.keys[i])
    THEN Raise("ValueError", "ValueError")
    ELSE IF SortedIdx(raw.keys) # << >>
    THEN Raise("NameError", "other")
    ELSE Return(<< >>)

\* the body of the try block of fetch_day for one answer of the endpoint
TryBody(scr, d, resp, lib) ==
    CASE resp.kind = "conn_error" -> Raise("ConnectionError", "RequestException")
      [] resp.kind = "http_error" -> Raise("HTTPError", "RequestException")
      [] resp.kind = "badjson" -> Raise("JSONDecodeError", lib)
      [] resp.kind = "json" ->
            IF resp.raw.j = "list" THEN CleanRecords(scr, d, resp.raw.items)
            ELSE IF resp.raw.j = "dict"
            THEN LET r == DictRecords(resp.raw)
                 IN  IF r.tag = "raise" THEN r ELSE CleanRecords(scr, d, r.recs)
            ELSE Return(<< >>)

\* what the source holds for a day: two records, one record, none, in turn
SourceData(d) ==
    CASE d % 3 = 1 -> << WithStatus(RawRec(PyInt(101), "M2"), PyInt(1)),
                         WithStatus(RawRec(PyStr(<< "1", "0", "2" >>), "M2"), PyInt(1)) >>
      [] d % 3 = 2 -> << RawRec(PyInt(101), "M2") >>
      [] OTHER -> << >>

\* the numeric-keyed object form of a list of records
AsObject(recs) == JDict([i \in 1..Len(recs) |-> NatRepr(i - 1)], recs)

\* the answers the endpoint may give for a day in a run of a main program
BasicResponses(d) ==
    { ConnError, HttpError, BadJson, Json(JScalar),
      Json(JList(SourceData(d))), Json(AsObject(SourceData(d))) }

BoundedSeq(S, n) == UNION { [1..k -> S] : k \in 0..n }

StatusCodes == { PyNone, PyInt(1), PyInt(0), PyStr(<< "1" >>) }

RichLocs == { PyInt(101), PyStr(<< "1", "0", "2" >>) }

RichElems ==
    { RawRec(loc, "M2") : loc \in RichLocs }
    \cup { WithStatus(RawRec(loc, "M2"), sc) : loc \in RichLocs, sc \in StatusCodes }
    \cup { NonDict }

RichKeys == { << "0" >>, << "1" >>, << "2" >>, << "1", "0" >>, << "meta" >> }

RichVals == { RawRec(PyInt(101), "M2"), WithStatus(RawRec(PyInt(101), "M3"), PyInt(0)) }

RichDicts ==
    { JDict(ks, vs) : ks \in { q \in BoundedSeq(RichKeys, MaxRecs) :
                                 \A i, j \in 1..Len(q) : i # j => q[i] # q[j] },
                      vs \in BoundedSeq(RichVals, MaxRecs) }

\* the answers the endpoint may give when fetch_day is exercised on its own
RichResponses ==
    { ConnError, HttpError, BadJson, Json(JScalar) }
    \cup { Json(JList(items)) : items \in BoundedSeq(RichElems, MaxRecs) }
    \cup { Json(d) : d \in { x \in RichDicts : Len(x.keys) = Len(x.vals) } }

(***************************************************************************)
(* The CSV file and the store.                                             *)
(***************************************************************************)
HeaderLine == [ i \in 1..Len(CSV_COLUMNS) |-> << CSV_COLUMNS[i] >> ]

FloatRepr(v) ==
    (IF v.neg THEN << "-" >> ELSE << >>) \o NatRepr(v.units) \o << "." >>
    \o (IF v.frac = << >> THEN << "0" >> ELSE v.frac)

\* the text csv.DictWriter writes for a value (None is written as "")
CellText(v) ==
    CASE v.t = "str" -> v.s
      [] v.t = "int" -> IntRepr(v.v)
      [] v.t = "float" -> FloatRepr(v)
      [] v.t = "null" -> << >>

\* one line of writer.writerows: the cells in CSV_COLUMNS order
CsvRow(out) == [ i \in 1..Len(CSV_COLUMNS) |-> CellText(out[CSV_COLUMNS[i]]) ]

CsvRows(recs) == [ i \in 1..Len(recs) |-> CsvRow(recs[i]) ]

NoFile == [exists |-> FALSE, lines |-> << >>]

\* get_existing_dates: csv.DictReader takes the first line as the field names
get_existing_dates(f) ==
    IF ~f.exists \/ f.lines = << >> THEN {}
    ELSE LET fieldnames == f.lines[1]
             cols == { i \in 1..Len(fieldnames) : fieldnames[i] = << "gas_date" >> }
         IN  IF cols = {} THEN {}
             ELSE LET g == SetMax(cols)
                  IN  { f.lines[i][g] :
                          i \in { k \in 2..Len(f.lines) : g <= Len(f.lines[k]) } }
                      \ { << >> }

\* the conflict key of a store row
RowKey(row) ==
    << row["gas_date"], row["loc"], row["loc_purp_desc"], row["flow_ind_desc"] >>

\* an insert that takes no notice of the conflict key
UpsertInsertOnly(st, batch) == st \cup Range(batch)

\* the keys a batch names
BatchKeys(batch) == { RowKey(batch[i]) : i \in 1..Len(batch) }

\* the store refuses a batch that names one key twice
DistinctKeys(batch) == Cardinality(BatchKeys(batch)) = Len(batch)

\* table.upsert(rows, on_conflict=...): insert, or replace the row of the same
\* key; of the rows of one key the last one stays
Upsert(st, batch) ==
    LET n == Len(batch)
        keys == BatchKeys(batch)
        last == IF Cardinality(keys) = n THEN Range(batch)
                ELSE { batch[i] : i \in { j \in 1..n : \A m \in (j + 1)..n :
                                                RowKey(batch[m]) # RowKey(batch[j]) } }
    IN  { r \in st : RowKey(r) \notin keys } \cup last

(***************************************************************************)
(* load_csv of the bulk loader.                                            *)
(***************************************************************************)
\* float("nan"), what pandas holds for a missing number
PyNaN == [t |-> "nan"]

\* an int held in a float64 column
AsFloat(v) ==
    IF v.t = "int"
    THEN [ t |-> "float", neg |-> v.v < 0,
           units |-> IF v.v < 0 THEN 0 - v.v ELSE v.v, frac |-> << >> ]
    ELSE v

\* df[col].apply(coerce_numeric): the results stay Python objects when a
\* string or only None is among them, are int64 when all are ints, and are
\* float64 (None becoming NaN) otherwise
PandasInfer(col) ==
    LET vals == Range(col)
    IN  IF \E v \in vals : v.t = "str" THEN col
        ELSE IF \A v \in vals : v.t = "null" THEN col
        ELSE IF \E v \in vals : v.t # "int"
        THEN [ k \in DOMAIN col |->
                 IF col[k].t \in { "null", "nan" } THEN PyNaN ELSE AsFloat(col[k]) ]
        ELSE col

\* load_csv: read_csv with dtype=str, rename by COL_MAP, keep the mapped
\* columns that are present, coerce the numeric ones, "" becomes None
load_csv(f) ==
    LET header == f.lines[1]
        n == Len(f.lines) - 1
        pos(i) == { p \in 1..Len(header) : header[p] = << CSV_COLUMNS[i] >> }
        kept == { i \in 1..Len(CSV_COLUMNS) : pos(i) # {} }
        cell(k, i) ==
            LET line == f.lines[k + 1]
                p == SetMin(pos(i))
            IN  IF p <= Len(line) THEN PyStr(line[p]) ELSE PyNaN
        column(i) ==
            IF i \notin kept THEN << >>
            ELSE IF DB_COLUMNS[i] \in NUMERIC_COLS
            THEN PandasInfer([ k \in 1..n |-> coerce_numeric(cell(k, i)) ] \o << >>)
                 \o << >>
            ELSE [ k \in 1..n |->
                     IF cell(k, i) = PyStr(<< >>) THEN PyNone ELSE cell(k, i) ] \o << >>
        table == [ i \in 1..Len(CSV_COLUMNS) |-> column(i) ] \o << >>
        dbpos(c) == CHOOSE i \in kept : DB_COLUMNS[i] = c
    IN  IF kept = {} THEN << >>
        ELSE [ k \in 1..n |->
                 [ c \in { DB_COLUMNS[i] : i \in kept } |-> table[dbpos(c)][k] ] ]

\* the store row of the backfill path for one raw record: fetch_day's `out`
\* written by csv.DictWriter to a new file under the header, read by load_csv
BackfillPathRow(d, rec) ==
    load_csv([ exists |-> TRUE,
               lines |-> << HeaderLine, CsvRow(BackfillOut(d, rec)) >> ])[1]

\* a posting of an earlier day: the record of a location with an OAC of 7
OldPosting(loc) == [ RawRec(PyInt(loc), "M2") EXCEPT !["OAC"] = PyInt(7) ]

\* the file a complete backfill left for START_DATE when the source held n
\* such postings, for the locations 101, 102, ...
CsvOf(n) ==
    [ exists |-> TRUE,
      lines |-> << HeaderLine >>
                \o [ k \in 1..n |->
                       CsvRow(BackfillOut(START_DATE, OldPosting(100 + k))) ] ]

(***************************************************************************)
(* The main programs.                                                      *)
(***************************************************************************)
Running == pc \in { "fetch", "sink", "batch" }

QDate == todo[idx]

FirstToday(scr) == IF scr = "backfill" THEN START_DATE ELSE LOOKBACK_DAYS
LastToday(scr) == FirstToday(scr) + MaxDay - 1

\* a data line of the file with this gas_date
HasRow(f, d) ==
    \E i \in 1..Len(f.lines) : f.lines[i] # HeaderLine /\ f.lines[i][1] = DateStr(d)

DateRange(a, b) == [ i \in 1..(IF b >= a THEN b - a + 1 ELSE 0) |-> a + i - 1 ]

\* fetch_iroquois_oac.main up to the first fetch_day call
BackfillStart ==
    /\ script = "backfill"
    /\ ~Running
    /\ runs < MaxRuns
    /\ runs' = runs + 1
    /\ LET existing == get_existing_dates(file)
           file_exists == existing # {} \/ file.exists
           td == SelectSeq(DateRange(START_DATE, today),
                           LAMBDA d : DateStr(d) \notin existing)
       IN  /\ fileAtStart' = file
           /\ coveredAtStart' = \A d \in START_DATE..today : HasRow(file, d)
           /\ todo' = td
           /\ idx' = 1
           /\ exc' = "none"
           /\ delays' = 0
           /\ rowsWritten' = 0
           /\ upserts' = << >>
           /\ returned' = << >>
           /\ IF td = << >>
              THEN /\ pc' = "done"
                   /\ landing' = FALSE
                   /\ fetched' = << >>
                   /\ records' = << >>
                   /\ UNCHANGED << file, buf, attempt, nreq, nfail, sleeps, lastResp >>
              ELSE /\ landing' = TRUE
                   /\ file' = [file EXCEPT !.exists = TRUE]
                   /\ buf' = IF file_exists THEN << >> ELSE << HeaderLine >>
                   /\ attempt' = 1 /\ nreq' = 0 /\ nfail' = 0 /\ sleeps' = << >>
                   /\ lastResp' = NoResp /\ records' = << >>
                   /\ pc' = "fetch"
                   /\ fetched' = << td[1] >>
    /\ UNCHANGED << script, libJsonErr, today, store, wasKilled, creds, loaderVars, nin, nout >>

\* the window without dates.reverse(): newest first
UpdaterDatesNewestFirst(t) == [ i \in 1..LOOKBACK_DAYS |-> t - (i - 1) ]

\* dates = [today - timedelta(days=i) for i in range(LOOKBACK_DAYS)], reversed
UpdaterDates(t) == DateRange(t - (LOOKBACK_DAYS - 1), t)

\* a test that looks at the URL only
HasCredentialsUrlOnly(url, key) == url

\* not (not url or not key)
HasCredentials(url, key) == url /\ key

\* update_db.main up to the first fetch_day call
UpdaterStart ==
    /\ script \in { "updater", "loader" }
    /\ ~Running
    /\ runs < MaxRuns
    /\ runs' = runs + 1
    /\ script' = "updater"
    /\ \E url \in BOOLEAN, key \in BOOLEAN :
        /\ creds' = [read |-> TRUE, url |-> url, key |-> key]
        /\ todo' = UpdaterDates(today)
        /\ idx' = 1
        /\ delays' = 0
        /\ rowsWritten' = 0
        /\ upserts' = << >>
        /\ returned' = << >>
        /\ attempt' = 1 /\ nreq' = 0 /\ nfail' = 0 /\ sleeps' = << >>
        /\ lastResp' = NoResp /\ records' = << >>
        /\ IF ~HasCredentials(url, key)
           THEN \* sys.exit(1)
                /\ pc' = "exited"
                /\ exc' = "SystemExit(1)"
                /\ landing' = FALSE
                /\ fetched' = << >>
           ELSE /\ pc' = "fetch"
                /\ exc' = "none"
                /\ landing' = TRUE
                /\ fetched' = << UpdaterDates(today)[1] >>
    /\ UNCHANGED << libJsonErr, today, file, buf, store, fileAtStart,
                    coveredAtStart, wasKilled, loaderVars, nin, nout >>

GiveUpLate(att) == att = MAX_RETRIES + 1

\* if attempt == MAX_RETRIES
GiveUp(att) == att = MAX_RETRIES

\* a wait that grows by two seconds per attempt
BackoffLinear(att) == 2 * att

\* wait = 2 ** attempt
Backoff(att) == 2 ^ att

OnExhaustedRaise == Raise("RetryError", "other")

\* the `return []` after the last failed attempt
OnExhausted == Return(<< >>)

\* the except clauses of fetch_day, applied to what the try block did
HandleExceptions(r, att) ==
    IF r.tag = "return" THEN r
    ELSE IF r.cls = "RequestException"
    THEN IF GiveUp(att) THEN OnExhausted ELSE [tag |-> "retry", wait |-> Backoff(att)]
    ELSE IF r.cls = "ValueError" THEN Return(<< >>)
    ELSE r

\* one iteration of `for attempt in range(1, MAX_RETRIES + 1)` of fetch_day
FetchStep(resp) ==
    LET t == TryBody(script, QDate, resp, libJsonErr)
        r == HandleExceptions(t, attempt)
    IN  /\ nreq' = nreq + 1
        /\ lastResp' = resp
        /\ nfail' = IF t.tag = "raise" /\ t.cls = "RequestException"
                    THEN nfail + 1 ELSE nfail
        /\ IF r.tag = "return"
           THEN /\ pc' = "sink"
                /\ records' = r.recs
                /\ returned' = Append(returned, r.recs)
                /\ UNCHANGED << attempt, sleeps, exc, file, buf >>
           ELSE IF r.tag = "retry"
           THEN /\ pc' = "fetch"
                /\ records' = << >>
                /\ sleeps' = Append(sleeps, r.wait)
                /\ attempt' = attempt + 1
                /\ UNCHANGED << returned, exc, file, buf >>
           ELSE \* not caught: leaves fetch_day and main; `with` closes the file
                /\ pc' = "aborted"
                /\ exc' = r.exc
                /\ records' = << >>
                /\ file' = [file EXCEPT !.lines = @ \o buf]
                /\ buf' = << >>
                /\ UNCHANGED << returned, attempt, sleeps >>

\* fetch_day inside a run of a main program
FetchAttempt ==
    /\ pc = "fetch"
    /\ \E resp \in BasicResponses(QDate) : FetchStep(resp)
    /\ UNCHANGED << script, libJsonErr, today, runs, store, todo, idx, fetched,
                    landing, delays, rowsWritten, upserts, fileAtStart,
                    coveredAtStart, wasKilled, creds, loaderVars, nin, nout >>

\* a loop body without the sleep
NoSleep(n) == n

\* time.sleep(DELAY_SECONDS), counted
AfterSleep(n) == n + 1

\* the end of a loop iteration: time.sleep(DELAY_SECONDS), then the next date
\* or the end of the run (closing the file flushes what is buffered)
NextDate(flushed) ==
    /\ delays' = AfterSleep(delays)
    /\ IF idx < Len(todo)
       THEN /\ idx' = idx + 1
            /\ pc' = "fetch"
            /\ attempt' = 1 /\ nreq' = 0 /\ nfail' = 0 /\ sleeps' = << >>
            /\ lastResp' = NoResp /\ records' = << >>
            /\ fetched' = Append(fetched, todo[idx + 1])
            /\ file' = [file EXCEPT !.lines = @ \o flushed]
            /\ buf' = IF flushed = << >> THEN buf ELSE << >>
       ELSE /\ pc' = "done"
            /\ file' = [file EXCEPT !.lines = @ \o (IF flushed = << >> THEN buf ELSE flushed)]
            /\ buf' = << >>
            /\ UNCHANGED << idx, attempt, nreq, nfail, sleeps, lastResp, records, fetched >>

\* a loop body that writes nothing through to the file
FlushedNothing(b, recs) == << >>

\* writer.writerows(records); fh.flush(): what was buffered and the rows of
\* the date reach the file
Flushed(b, recs) == b \o CsvRows(recs)

\* fetch_iroquois_oac.main, the loop body after fetch_day returned
BackfillWrite ==
    /\ script = "backfill"
    /\ pc = "sink"
    /\ IF records # << >>
       THEN /\ rowsWritten' = rowsWritten + Len(records)
            /\ NextDate(Flushed(buf, records))
       ELSE /\ rowsWritten' = rowsWritten
            /\ NextDate(<< >>)
    /\ UNCHANGED << script, libJsonErr, today, runs, exc, store, todo, landing,
                    returned, upserts, fileAtStart, coveredAtStart, wasKilled, creds, loaderVars, nin, nout >>

\* one upsert call for each record
UpsertCallsPerRecord(calls, recs) == calls \o [ i \in 1..Len(recs) |-> << recs[i] >> ]

\* upsert(client, rows): nothing for an empty list, else one call of
\* client.table(...).upsert(rows, on_conflict=...) with the whole list
UpsertCalls(calls, recs) == IF recs = << >> THEN calls ELSE Append(calls, recs)

\* update_db.main, the loop body after fetch_day returned
UpdaterUpsert ==
    /\ script = "updater"
    /\ pc = "sink"
    /\ IF records # << >>
       THEN \E accepted \in (IF DistinctKeys(records) THEN BOOLEAN ELSE { FALSE }) :
            /\ upserts' = UpsertCalls(upserts, records)
            /\ IF accepted
               THEN /\ store' = Upsert(store, records)
                    /\ rowsWritten' = rowsWritten + Len(records)
                    /\ exc' = exc
                    /\ NextDate(<< >>)
               ELSE \* execute() raises; nothing catches it
                    /\ pc' = "aborted"
                    /\ exc' = "APIError"
                    /\ UNCHANGED << store, rowsWritten, delays, idx, attempt, nreq,
                                    nfail, sleeps, lastResp, records, fetched,
                                    file, buf >>
       ELSE /\ NextDate(<< >>)
            /\ UNCHANGED << store, rowsWritten, upserts, exc >>
    /\ UNCHANGED << script, libJsonErr, today, runs, todo, landing, returned, fileAtStart,
                    coveredAtStart, wasKilled, creds, loaderVars, nin, nout >>

\* load_csv_to_supabase.main up to the first batch of upsert_batches
LoaderStart ==
    /\ script \in { "updater", "loader" }
    /\ ~Running
    /\ runs < MaxRuns
    /\ runs' = runs + 1
    /\ script' = "loader"
    /\ todo' = << >> /\ idx' = 1 /\ fetched' = << >> /\ landing' = FALSE
    /\ delays' = 0 /\ rowsWritten' = 0 /\ upserts' = << >> /\ returned' = << >>
    /\ attempt' = 1 /\ nreq' = 0 /\ nfail' = 0 /\ sleeps' = << >>
    /\ lastResp' = NoResp /\ records' = << >>
    /\ batchStart' = 0 /\ written' = 0 /\ errors' = 0 /\ batchOk' = << >>
    /\ IF ~file.exists
       THEN \* CSV file not found: sys.exit(1)
            /\ pc' = "exited"
            /\ exc' = "SystemExit(1)"
            /\ creds' = [read |-> FALSE, url |-> FALSE, key |-> FALSE]
            /\ rows' = << >>
       ELSE \E url \in BOOLEAN, key \in BOOLEAN :
            /\ creds' = [read |-> TRUE, url |-> url, key |-> key]
            /\ IF ~HasCredentials(url, key)
               THEN \* sys.exit(1)
                    /\ pc' = "exited"
                    /\ exc' = "SystemExit(1)"
                    /\ rows' = << >>
               ELSE IF file.lines = << >>
               THEN \* read_csv finds no columns to parse
                    /\ pc' = "aborted"
                    /\ exc' = "EmptyDataError"
                    /\ rows' = << >>
               ELSE /\ rows' = load_csv(file)
                    /\ exc' = "none"
                    /\ pc' = IF rows' = << >> THEN "done" ELSE "batch"
    /\ UNCHANGED << libJsonErr, today, file, buf, store, fileAtStart,
                    coveredAtStart, wasKilled, nin, nout >>

\* a slice that leaves out the last row of its range
SliceShort(s, from, size) ==
    SubSeq(s, from + 1, IF from + size - 1 < Len(s) THEN from + size - 1 ELSE Len(s))

\* rows[i : i + BATCH_SIZE]
Slice(s, from, size) ==
    SubSeq(s, from + 1, IF from + size < Len(s) THEN from + size ELSE Len(s))

\* a loop that ends at the first failed batch
AfterBatchStopOnError(from, total, ok) ==
    IF ok /\ from + BATCH_SIZE < total THEN "batch" ELSE "done"

\* for i in range(0, total, BATCH_SIZE): the next batch, or the report
AfterBatch(from, total, ok) ==
    IF from + BATCH_SIZE < total THEN "batch" ELSE "done"

\* one iteration of the loop of upsert_batches
LoaderBatch ==
    /\ script = "loader"
    /\ pc = "batch"
    /\ LET batch == Slice(rows, batchStart, BATCH_SIZE)
       IN  \E accepted \in (IF DistinctKeys(batch) THEN BOOLEAN ELSE { FALSE }) :
            /\ upserts' = Append(upserts, batch)
            /\ batchOk' = Append(batchOk, accepted)
            /\ IF accepted
               THEN /\ store' = Upsert(store, batch)
                    /\ written' = written + Len(batch)
                    /\ errors' = errors
               ELSE \* except Exception
                    /\ store' = store
                    /\ errors' = errors + Len(batch)
                    /\ written' = written
            /\ pc' = AfterBatch(batchStart, Len(rows), accepted)
            /\ batchStart' = IF pc' = "batch" THEN batchStart + BATCH_SIZE
                             ELSE batchStart
    /\ UNCHANGED << script, libJsonErr, today, runs, exc, file, buf, todo, idx,
                    attempt, nreq, nfail, sleeps, lastResp, records, returned, fetched,
                    landing, delays, rowsWritten, fileAtStart, coveredAtStart,
                    wasKilled, creds, rows, nin, nout >>

\* the process is terminated from outside: what is buffered is lost; during
\* writerows/flush any prefix of the pending lines may have reached the file
Kill ==
    /\ Running
    /\ LET pending == IF pc = "sink" /\ script = "backfill" /\ records # << >>
                      THEN buf \o CsvRows(records) ELSE << >>
       IN  \E k \in 0..Len(pending) :
               file' = [file EXCEPT !.lines = @ \o SubSeq(pending, 1, k)]
    /\ buf' = << >>
    /\ pc' = "killed"
    /\ wasKilled' = TRUE
    /\ UNCHANGED << script, libJsonErr, today, runs, exc, store, todo, idx, attempt,
                    nreq, nfail, sleeps, lastResp, records, returned, fetched, landing,
                    delays, rowsWritten, upserts, fileAtStart, coveredAtStart,
                    creds, loaderVars, nin, nout >>

\* midnight passes between two runs
NextDay ==
    /\ ~Running
    /\ today < LastToday(script)
    /\ today' = today + 1
    /\ UNCHANGED << script, libJsonErr, runs, pc, exc, file, buf, store, todo, idx,
                    attempt, nreq, nfail, sleeps, lastResp, records, returned, fetched,
                    landing, delays, rowsWritten, upserts, fileAtStart,
                    coveredAtStart, wasKilled, creds, loaderVars, nin, nout >>

InitCommon ==
    /\ libJsonErr \in { "RequestException", "ValueError" }
    /\ runs = 0
    /\ exc = "none"
    /\ buf = << >>
    /\ store = {}
    /\ idx = 1
    /\ attempt = 1
    /\ nreq = 0
    /\ nfail = 0
    /\ sleeps = << >>
    /\ lastResp = NoResp
    /\ records = << >>
    /\ returned = << >>
    /\ landing = FALSE
    /\ delays = 0
    /\ rowsWritten = 0
    /\ upserts = << >>
    /\ fileAtStart = NoFile
    /\ coveredAtStart = FALSE
    /\ wasKilled = FALSE
    /\ creds = [read |-> FALSE, url |-> FALSE, key |-> FALSE]
    /\ rows = << >>
    /\ batchStart = 0
    /\ written = 0
    /\ errors = 0
    /\ batchOk = << >>

NormIdle == nin = PyNone /\ nout = [done |-> FALSE]

Init ==
    /\ InitCommon
    /\ NormIdle
    /\ script \in { "backfill", "updater", "loader" }
    /\ today \in FirstToday(script)..LastToday(script)
    /\ file = IF script = "loader" THEN CsvOf(2) ELSE NoFile
    /\ pc = "idle"
    /\ todo = << >>
    /\ fetched = << >>

Next ==
    \/ BackfillStart
    \/ UpdaterStart
    \/ FetchAttempt
    \/ BackfillWrite
    \/ UpdaterUpsert
    \/ LoaderStart
    \/ LoaderBatch
    \/ Kill
    \/ NextDay

Spec == Init /\ [][Next]_vars

(***************************************************************************)
(* fetch_day exercised on its own, over every answer of the endpoint.      *)
(***************************************************************************)
InitFetch ==
    /\ InitCommon
    /\ NormIdle
    /\ script \in { "backfill", "updater" }
    /\ today = LastToday(script)
    /\ file = NoFile
    /\ pc = "fetch"
    /\ \E d \in START_DATE..MaxDay : todo = << d >> /\ fetched = << d >>

FetchDayAttempt ==
    /\ pc = "fetch"
    /\ \E resp \in RichResponses : FetchStep(resp)
    /\ UNCHANGED << script, libJsonErr, today, runs, store, todo, idx, fetched,
                    landing, delays, rowsWritten, upserts, fileAtStart,
                    coveredAtStart, wasKilled, creds, loaderVars, nin, nout >>

\* the next call of fetch_day, for any date
FetchDayCall ==
    /\ pc \in { "sink", "aborted" }
    /\ \E d \in START_DATE..MaxDay :
        /\ todo' = << d >>
        /\ fetched' = << d >>
    /\ pc' = "fetch"
    /\ exc' = "none"
    /\ attempt' = 1 /\ nreq' = 0 /\ nfail' = 0 /\ sleeps' = << >>
    /\ lastResp' = NoResp /\ records' = << >> /\ returned' = << >>
    /\ UNCHANGED << script, libJsonErr, today, runs, file, buf, store, idx, landing,
                    delays, rowsWritten, upserts, fileAtStart, coveredAtStart,
                    wasKilled, creds, loaderVars, nin, nout >>

NextFetch == FetchDayAttempt \/ FetchDayCall

SpecFetch == InitFetch /\ [][NextFetch]_vars

(***************************************************************************)
(* The bulk loader on its own, over input files of several sizes.          *)
(***************************************************************************)
LoadSizes ==
    { n \in 0..MaxRows : \/ n % BATCH_SIZE \in { 0, 1, BATCH_SIZE - 1 }
                         \/ n \in { 1200, MaxRows } }

InitLoad ==
    /\ InitCommon
    /\ NormIdle
    /\ libJsonErr = "RequestException"
    /\ script = "loader"
    /\ today = LastToday(script)
    /\ file \in { CsvOf(n) : n \in LoadSizes }
    /\ pc = "idle"
    /\ todo = << >>
    /\ fetched = << >>

NextLoad == LoaderStart \/ LoaderBatch

SpecLoad == InitLoad /\ [][NextLoad]_vars

(***************************************************************************)
(* The numeric normalizers applied to every raw value of a bounded set.    *)
(***************************************************************************)
Alphabet == { "0", "1", "5", ",", ".", "-", " ", "x" }

NormInputs ==
    { PyStr(s) : s \in BoundedSeq(Alphabet, MaxLen) }
    \cup { PyStr(<< "1", "2", ",", "3", "4", "5" >>), PyStr(<< "3", ".", "5" >>) }
    \cup { PyNone, PyInt(0), PyInt(12345) }

\* a raw record that carries the value under every numeric source label
NumericRec(v) ==
    ("Loc" :> v) @@ ("Design Capacity" :> v) @@ ("Operating Capacity" :> v)
    @@ ("Total Scheduled Quantity" :> v) @@ ("OAC" :> v)

\* a raw record that carries the value under every source label
AllLabelsRec(v) == [ label \in { COL_MAP[i][1] : i \in DOMAIN COL_MAP } |-> v ]

InitNorm ==
    /\ InitCommon
    /\ libJsonErr = "RequestException"
    /\ script = "none"
    /\ today = START_DATE
    /\ file = NoFile
    /\ pc = "idle"
    /\ todo = << >>
    /\ fetched = << >>
    /\ nin \in NormInputs
    /\ nout = [done |-> FALSE]

\* the normalizers of the three scripts applied to the raw value
NormApply ==
    /\ ~nout.done
    /\ nout' = [ done |-> TRUE,
                 clean |-> clean_numeric(nin),
                 coerce |-> coerce_numeric(nin),
                 backfill |-> BackfillCleanNumeric(nin),
                 row |-> UpdaterRow(START_DATE, NumericRec(nin)),
                 rowAll |-> UpdaterRow(START_DATE, AllLabelsRec(nin)),
                 viaCsv |-> BackfillPathRow(START_DATE, AllLabelsRec(nin)),
                 rowNone |-> UpdaterRow(START_DATE, << >>) ]
    /\ UNCHANGED << mainVars, nin >>

NextNorm == NormApply

SpecNorm == InitNorm /\ [][NextNorm]_vars

(***************************************************************************)
(* Properties.                                                             *)
(***************************************************************************)
ColIdx(name) == CHOOSE i \in 1..Len(CSV_COLUMNS) : CSV_COLUMNS[i] = name

\* the data lines of the file, as positions
DataLines(f) == { i \in 1..Len(f.lines) : f.lines[i] # HeaderLine }

\* (gas_date, loc, loc_purp_desc, flow_ind_desc) of a data line
LineKey(line) ==
    << line[ColIdx("gas_date")], line[ColIdx("Loc")],
       line[ColIdx("Loc Purp Desc")], line[ColIdx("Flow Ind Desc")] >>

\* the lines a complete fetch of day d puts into the file
ExpectedLines(d) == Range(CsvRows(CleanLoop("backfill", d, SourceData(d))))

\* C1: a backfill run started when every date of [START_DATE, today] already
\* has a row in the output file calls fetch_day for no date, does not visit
\* the landing page and leaves the file as it was.
C1_CoveredRerunIsNoop ==
    (script = "backfill" /\ runs >= 1 /\ coveredAtStart)
        => (fetched = << >> /\ ~landing /\ file = fileAtStart)

\* C2: whatever runs happened (complete, terminated, resumed), no two data
\* lines of the output file have the same
\* (gas_date, loc, loc_purp_desc, flow_ind_desc).
C2_UniqueKeysInFile ==
    \A i, j \in DataLines(file) :
        i # j => LineKey(file.lines[i]) # LineKey(file.lines[j])

\* C3: when a backfill run completes after an earlier run was terminated,
\* every date that has a row in the output file has all the rows the source
\* returns for it.
C3_NoPartialDateAfterResume ==
    (script = "backfill" /\ pc = "done" /\ wasKilled)
        => \A d \in START_DATE..today :
               HasRow(file, d) => ExpectedLines(d) \subseteq Range(file.lines)

\* C4: no run of the backfill or of the updater ends in an uncaught error,
\* whatever the endpoint answers and whether or not the store accepts an
\* upsert; a run stops early only for missing configuration.
C4_ErrorsAbsorbed == pc # "aborted"

AllDicts(items) == \A i \in 1..Len(items) : IsDict(items[i])

IsList(resp) == resp.kind = "json" /\ resp.raw.j = "list"

\* C5: a fetch_day call issues at least 1 and at most MAX_RETRIES requests;
\* a failed attempt before the last is followed by the next attempt; and when
\* attempt k answers with an array of records after k-1 failed attempts, the
\* call returns the normalized records of that answer.
C5_RetryBound ==
    [][ /\ nreq' <= MAX_RETRIES
        /\ (pc = "fetch" /\ pc' # "fetch") => nreq' >= 1
        /\ (pc = "fetch" /\ nfail' = nfail + 1 /\ nfail' < MAX_RETRIES)
              => (pc' = "fetch" /\ attempt' = attempt + 1 /\ nreq' = nfail')
        /\ (pc = "fetch" /\ IsList(lastResp') /\ AllDicts(lastResp'.raw.items))
              => /\ pc' = "sink"
                 /\ nreq' = nfail + 1
                 /\ records' = CleanLoop(script, QDate, lastResp'.raw.items) ]_vars

\* C5 witness: three failed attempts, then an answer with records
C5_Witness ==
    pc = "sink" /\ nfail = 3 /\ nreq = 4 /\ IsList(lastResp) /\ records # << >>

\* C6: when the last of MAX_RETRIES attempts fails like the ones before it,
\* fetch_day returns the empty list and nothing is raised; the main loop then
\* goes on to the next date, or ends normally after the last one.
C6_ExhaustedReturnsEmpty ==
    [][ /\ (pc = "fetch" /\ nfail' = MAX_RETRIES)
              => (pc' = "sink" /\ records' = << >> /\ exc' = "none"
                  /\ nreq' = MAX_RETRIES)
        /\ (pc = "sink" /\ nfail = MAX_RETRIES /\ pc' # "killed")
              => /\ rowsWritten' = rowsWritten /\ upserts' = upserts /\ store' = store
                 /\ IF idx < Len(todo)
                    THEN pc' = "fetch" /\ idx' = idx + 1
                         /\ fetched' = Append(fetched, todo[idx + 1])
                    ELSE pc' = "done" ]_vars

\* C6 witness: all attempts failed and a further date is still to come
C6_Witness ==
    /\ pc = "sink" /\ nfail = MAX_RETRIES /\ nreq = MAX_RETRIES
    /\ records = << >> /\ idx < Len(todo)

\* C7: an answer that is no valid JSON, or a JSON value of another shape than
\* array or object, ends the call at once: the empty list is returned, and
\* neither a further request nor a backoff sleep follows that answer.
C7_MalformedNoRetry ==
    (lastResp.kind = "badjson" \/ (lastResp.kind = "json" /\ lastResp.raw.j = "scalar"))
        => /\ pc = "sink"
           /\ records = << >>
           /\ nfail = nreq - 1
           /\ Len(sleeps) = nreq - 1

\* the dict branch as the claim describes it: values by ascending numeric key,
\* non-numeric keys ignored
DictRecordsIntended(raw) ==
    LET num == { i \in 1..Len(raw.keys) : IsDigits(raw.keys[i]) }
        ks == SelectSeq([i \in 1..Len(raw.keys) |-> i], LAMBDA i : i \in num)
        sub == [ p \in 1..Len(ks) |-> raw.keys[ks[p]] ]
        ord == SortedIdx(sub)
    IN  Return([ p \in 1..Len(ks) |-> raw.vals[ks[ord[p]]] ])

\* C8: a non-empty object whose keys are all stringified integers is answered
\* with the normalized records of its values by ascending numeric key.
C8_NumericKeyedObject ==
    ( /\ lastResp.kind = "json" /\ lastResp.raw.j = "dict"
      /\ lastResp.raw.keys # << >>
      /\ \A i \in 1..Len(lastResp.raw.keys) : IsDigits(lastResp.raw.keys[i])
      /\ AllDicts(lastResp.raw.vals) )
        => /\ pc = "sink"
           /\ records = CleanLoop(script, QDate, DictRecordsIntended(lastResp.raw).recs)

\* the normalized records of those items the predicate keeps, in order
KeptRecords(items, Keep(_)) ==
    LET kept == SelectSeq(items, Keep)
    IN  [ i \in 1..Len(kept) |-> NormalizeRec(script, QDate, kept[i]) ]

\* C9 as stated: the output holds exactly the records whose statusCode is
\* absent or equal to 1, in their order, and the others cause no error.
C9_StatusAbsentOrOne ==
    (lastResp.kind = "json" /\ lastResp.raw.j = "list" /\ AllDicts(lastResp.raw.items))
        => /\ pc = "sink"
           /\ records = KeptRecords(lastResp.raw.items,
                           LAMBDA rec : \/ "statusCode" \notin DOMAIN rec
                                        \/ rec["statusCode"] = PyInt(1))

\* C9 amended: the output holds exactly the records whose statusCode is
\* absent, null or equal to 1, in their order; a record whose statusCode is
\* present, not null and different from 1 is left out and causes no error.
C9_StatusAbsentNullOrOne ==
    (lastResp.kind = "json" /\ lastResp.raw.j = "list" /\ AllDicts(lastResp.raw.items))
        => /\ pc = "sink"
           /\ records = KeptRecords(lastResp.raw.items,
                           LAMBDA rec : \/ "statusCode" \notin DOMAIN rec
                                        \/ rec["statusCode"] = PyNone
                                        \/ rec["statusCode"] = PyInt(1))

\* C9 witness: an array of which one record is left out and one is kept
C9_Witness ==
    /\ pc = "sink" /\ IsList(lastResp) /\ Len(lastResp.raw.items) = 2
    /\ Len(records) = 1
    /\ \E i \in 1..2 : "statusCode" \in DOMAIN lastResp.raw.items[i]
                       /\ lastResp.raw.items[i]["statusCode"] = PyInt(0)

\* what the claim says a numeric column's text is normalized to
NumericExpected(s) ==
    LET st == Strip(RemoveCommas(s))
    IN  IF IntParses(st) THEN PyInt(IntValue(st))
        ELSE IF FloatParses(st) THEN FloatValue(st)
        ELSE IF s = << >> THEN PyNone
        ELSE PyStr(s)

\* C10: for a string value the updater's clean_numeric, applied in every
\* numeric column of a row, and the loader's coerce_numeric give the integer
\* of the text without commas if it is one, else its float if it is one, else
\* the string as it was, and null for the empty string; "12,345" gives 12345
\* and "3.5" gives 3.5.
C10_NumericNormalization ==
    (nout.done /\ nin.t = "str")
        => /\ nout.clean = NumericExpected(nin.s)
           /\ nout.coerce = NumericExpected(nin.s)
           /\ \A c \in NUMERIC_COLS : nout.row[c] = NumericExpected(nin.s)
           /\ nin.s = << "1", "2", ",", "3", "4", "5" >> => nout.clean = PyInt(12345)
           /\ nin.s = << "3", ".", "5" >>
                => nout.clean = [t |-> "float", neg |-> FALSE, units |-> 3,
                                 frac |-> << "5" >>]
           /\ nin.s = << >> => nout.clean = PyNone

\* C10 witness: "12,345" normalized to the integer 12345 by both functions
C10_Witness ==
    /\ nout.done /\ nin = PyStr(<< "1", "2", ",", "3", "4", "5" >>)
    /\ nout.clean = PyInt(12345) /\ nout.coerce = PyInt(12345)
    /\ nout.row["oac"] = PyInt(12345)

\* C11: a row the updater builds has the 15 canonical keys; a field whose
\* source label is missing from the raw record, or whose raw value is the
\* empty string, is null; and no field is the empty string.
C11_RowKeysAndNulls ==
    nout.done
        => /\ \A r \in { nout.row, nout.rowAll, nout.rowNone } :
                 /\ DOMAIN r = Range(DB_COLUMNS)
                 /\ Cardinality(DOMAIN r) = 15
                 /\ \A c \in DOMAIN r : r[c] # PyStr(<< >>)
           /\ \A c \in Range(DB_COLUMNS) \ { "gas_date" } : nout.rowNone[c] = PyNone
           /\ \A c \in Range(DB_COLUMNS) \ (NUMERIC_COLS \cup { "gas_date" }) :
                 nout.row[c] = PyNone
           /\ nin = PyStr(<< >>)
                 => \A c \in Range(DB_COLUMNS) \ { "gas_date" } : nout.rowAll[c] = PyNone

\* C11 witness: the empty string under every source label, all fields null
C11_Witness ==
    /\ nout.done /\ nin = PyStr(<< >>)
    /\ nout.rowAll["loc_name"] = PyNone /\ nout.rowAll["oac"] = PyNone
    /\ nout.rowAll["gas_date"] = PyStr(DateStr(START_DATE))

CeilDiv(n, b) == (n + b - 1) \div b

\* C13: for n input rows upsert_batches issues ceil(n / BATCH_SIZE) upsert
\* calls; call j carries the rows (j-1)*BATCH_SIZE+1 .. min(j*BATCH_SIZE, n),
\* so every batch but the last has BATCH_SIZE rows, the last has 1 to
\* BATCH_SIZE, and the batches in call order make up the input; 1200 rows
\* give calls of 500, 500, 200 and no rows give no call and no error.
C13_BatchCalls ==
    (script = "loader" /\ pc \in { "batch", "done" })
        => LET n == Len(rows)
               m == Len(upserts)
           IN  /\ \A j \in 1..m :
                     /\ upserts[j] = SubSeq(rows, (j - 1) * BATCH_SIZE + 1,
                                            IF j * BATCH_SIZE < n THEN j * BATCH_SIZE ELSE n)
                     /\ Len(upserts[j]) >= 1 /\ Len(upserts[j]) <= BATCH_SIZE
                     /\ j < CeilDiv(n, BATCH_SIZE) => Len(upserts[j]) = BATCH_SIZE
               /\ m <= CeilDiv(n, BATCH_SIZE)
               /\ pc = "done"
                     => /\ m = CeilDiv(n, BATCH_SIZE)
                        /\ exc = "none"
                        /\ n = 0 => upserts = << >>
                        /\ n = 1200 => [ j \in 1..m |-> Len(upserts[j]) ] = << 500, 500, 200 >>

\* C13 witness: 1200 rows went out in calls of 500, 500 and 200 rows
C13_Witness ==
    /\ script = "loader" /\ pc = "done" /\ Len(rows) = 1200 /\ Len(upserts) = 3
    /\ Len(upserts[1]) = 500 /\ Len(upserts[2]) = 500 /\ Len(upserts[3]) = 200

\* the rows of those batches whose outcome is `ok`
RECURSIVE RowsWithOutcome(_, _, _)
RowsWithOutcome(batches, oks, ok) ==
    IF batches = << >> THEN 0
    ELSE (IF Head(oks) = ok THEN Len(Head(batches)) ELSE 0)
         + RowsWithOutcome(Tail(batches), Tail(oks), ok)

\* C14: a failed batch is followed by the next batch when one is left; every
\* batch is attempted once; `written` is the row count of the batches that
\* succeeded and `errors` that of the batches that failed, and at the end
\* written + errors is the number of input rows.
C14_FailedBatchGoesOn ==
    [][ script' = "loader"
          => /\ (pc = "batch" /\ batchStart + BATCH_SIZE < Len(rows))
                   => /\ pc' = "batch"
                      /\ batchStart' = batchStart + BATCH_SIZE
                      /\ Len(upserts') = Len(upserts) + 1
             /\ pc' \in { "batch", "done" }
                   => /\ Len(batchOk') = Len(upserts')
                      /\ written' = RowsWithOutcome(upserts', batchOk', TRUE)
                      /\ errors' = RowsWithOutcome(upserts', batchOk', FALSE)
             /\ pc' = "done"
                   => /\ written' + errors' = Len(rows')
                      /\ Len(upserts') = CeilDiv(Len(rows'), BATCH_SIZE)
                      /\ \A j \in 1..Len(upserts') :
                            upserts'[j] = Slice(rows', (j - 1) * BATCH_SIZE, BATCH_SIZE) ]_vars

\* C14 witness: the first of three batches failed, the other two went through
C14_Witness ==
    /\ script = "loader" /\ pc = "done"
    /\ batchOk = << FALSE, TRUE, TRUE >>
    /\ written = 700 /\ errors = 500 /\ Len(rows) = 1200

OneRowPerKey(st) == \A r1, r2 \in st : RowKey(r1) = RowKey(r2) => r1 = r2

\* the step is an upsert call that the store accepted
Submits ==
    /\ Len(upserts') = Len(upserts) + 1
    /\ \/ script = "updater" /\ pc' # "aborted"
       \/ script = "loader" /\ batchOk'[Len(batchOk')]

\* C15: the store holds at most one row per
\* (gas_date, loc, loc_purp_desc, flow_ind_desc); after an accepted upsert of
\* the loader or the updater it holds, for every key submitted, the row just
\* submitted, and the rows of the other keys as they were; submitting the
\* same rows once more would leave it as it is; no other step changes it.
C15_UpsertIdempotent ==
    [][ /\ OneRowPerKey(store')
        /\ IF Submits
           THEN LET b == upserts'[Len(upserts')]
                IN  /\ \A i \in 1..Len(b) : b[i] \in store'
                    /\ \A r \in store : RowKey(r) \notin BatchKeys(b) => r \in store'
                    /\ \A r \in store' : r \in store \/ r \in Range(b)
                    /\ Upsert(store', b) = store'
           ELSE store' = store ]_vars

\* C15 witness: the loader stored its two rows of START_DATE, and a later
\* updater run replaced the row of location 101 by the newer posting
C15_Witness ==
    /\ script = "updater" /\ batchOk = << TRUE >> /\ written = 2
    /\ Cardinality({ r \in store : r["gas_date"] = PyStr(DateStr(START_DATE)) }) = 2
    /\ \E r \in store : /\ r["gas_date"] = PyStr(DateStr(START_DATE))
                         /\ r["loc"] = PyInt(101)
                         /\ r["oac"] = PyInt(0)

\* C16: a run of the updater or of the loader that finds the store URL or
\* the access key missing, and a run of the loader that finds no input file,
\* exits with status 1 having made no request to the source (landing page
\* included) and no upsert call.
C16_FailFast ==
    ( /\ script \in { "updater", "loader" }
      /\ runs >= 1
      /\ \/ creds.read /\ ~(creds.url /\ creds.key)
         \/ script = "loader" /\ ~file.exists )
        => /\ pc = "exited"
           /\ exc = "SystemExit(1)"
           /\ ~landing /\ nreq = 0 /\ fetched = << >>
           /\ upserts = << >>
           /\ script = "loader" => rows = << >>

\* C16 witness: an updater run that found the URL and no key
C16_Witness ==
    /\ script = "updater" /\ pc = "exited" /\ runs >= 1
    /\ creds.read /\ creds.url /\ ~creds.key
    /\ ~landing /\ upserts = << >>

\* C17: a backfill run calls fetch_day once for each date of
\* [START_DATE, today] that had no row in the output file when the run
\* started, oldest first, and for no other date.
C17_FetchesMissingDates ==
    [][ (script = "backfill" /\ pc # "done" /\ pc' = "done")
          => fetched' = SelectSeq(DateRange(START_DATE, today),
                                  LAMBDA d : ~HasRow(fileAtStart', d)) ]_vars

\* C18: in the backfill and in the updater the step from one date's
\* fetch_day call to the next date's call goes through one sleep of
\* DELAY_SECONDS, which is not zero, whatever the earlier call returned; so
\* a run that is at its k-th date has slept k-1 times.
C18_DelayBetweenDates ==
    [][ script' \in { "backfill", "updater" }
          => /\ DELAY_SECONDS > 0
             /\ (runs' = runs /\ Len(fetched') = Len(fetched) + 1)
                   => /\ pc = "sink"
                      /\ (delays' - delays) * DELAY_SECONDS = DELAY_SECONDS
             /\ pc' \in { "fetch", "sink" } => delays' = Len(fetched') - 1 ]_vars

\* C18 witness: the updater is at its third date, having slept twice, after
\* two dates that gave nothing to upsert
C18_Witness ==
    /\ script = "updater" /\ pc = "fetch" /\ Len(fetched) = 3 /\ delays = 2
    /\ upserts = << >>

\* C19: an object with stringified-integer keys and at least one other key
\* is answered with the normalized records of the values of the numeric
\* keys, by ascending numeric key; the other keys are ignored.
C19_MixedKeysObject ==
    ( /\ lastResp.kind = "json" /\ lastResp.raw.j = "dict"
      /\ \E i \in 1..Len(lastResp.raw.keys) : IsDigits(lastResp.raw.keys[i])
      /\ \E i \in 1..Len(lastResp.raw.keys) : ~IsDigits(lastResp.raw.keys[i])
      /\ AllDicts(lastResp.raw.vals) )
        => /\ pc = "sink"
           /\ records = CleanLoop(script, QDate, DictRecordsIntended(lastResp.raw).recs)

\* C20: whatever backfill runs happened, terminated ones included, an output
\* file that is not empty starts with the header row and holds it once.
C20_HeaderOnce ==
    (file.exists /\ file.lines # << >>)
        => /\ file.lines[1] = HeaderLine
           /\ Cardinality({ i \in 1..Len(file.lines) : file.lines[i] = HeaderLine }) = 1

IsPrefix(s, t) == Len(s) <= Len(t) /\ SubSeq(t, 1, Len(s)) = s

RECURSIVE Flatten(_)
Flatten(ss) == IF ss = << >> THEN << >> ELSE Head(ss) \o Flatten(Tail(ss))

\* the CSV lines of what fetch_day returned for the dates before the current
\* one of the running main loop
EarlierLines ==
    Flatten([ i \in 1..(idx - 1) |-> CsvRows(returned[i]) ])

\* C21: a backfill run only appends: the file as it was at the start of the
\* run is a prefix of the file at every later point of the run, also after
\* the run was terminated; and the rows of every earlier date of the run
\* that returned records are in the file, in order (after the header when
\* the run wrote one), from the moment fetch_day starts for the next date.
C21_AppendOnlyFlushed ==
    (script = "backfill" /\ pc # "idle") =>
        LET old == fileAtStart.lines
            added == SubSeq(file.lines, Len(old) + 1, Len(file.lines))
        IN  /\ IsPrefix(old, file.lines)
            /\ EarlierLines # << >> =>
                   \E h \in { << >>, << HeaderLine >> } :
                       IsPrefix(h \o EarlierLines, added)

\* a run that resumed a file left by a terminated run was itself terminated
\* while it wrote the rows of its second date, after the first date's rows
C21_Witness ==
    /\ script = "backfill" /\ pc = "killed"
    /\ fileAtStart.lines # << >>
    /\ Len(returned) = 2 /\ returned[1] # << >> /\ returned[2] # << >>
    /\ Len(file.lines) > Len(fileAtStart.lines) + Len(returned[1])

NonEmpty(ss) == SelectSeq(ss, LAMBDA recs : recs # << >>)

\* C22: in a run of the updater the upsert calls made so far are, in order,
\* the non-empty record lists fetch_day returned for the dates the loop body
\* has dealt with, each list whole and in one call: all the dates fetched so
\* far when fetch_day starts for the next date or the run is over, all but
\* the latest while the loop body still holds what fetch_day just returned.
\* A date that returned no records has no call.
C22_OneUpsertPerDate ==
    script = "updater" =>
        /\ pc \in { "fetch", "done", "aborted" } => upserts = NonEmpty(returned)
        /\ pc = "sink" => upserts = NonEmpty(Front(returned))
        /\ pc = "killed" => upserts \in { NonEmpty(returned), NonEmpty(Front(returned)) }
        /\ pc = "exited" => upserts = << >>

\* a complete run with a date that returned records, one call for it, and a
\* date that returned none
C22_Witness ==
    /\ script = "updater" /\ pc = "done"
    /\ Len(returned) = LOOKBACK_DAYS
    /\ \E i, j \in 1..Len(returned) : Len(returned[i]) = 2 /\ returned[j] = << >>
    /\ Len(upserts) = 1

\* C23: within one fetch_day call the sleeps between attempts are 2, 4, 8
\* seconds, in this order: one after each attempt that failed with a request
\* error, except after attempt MAX_RETRIES, after which the call returns its
\* empty result without a sleep.
C23_ExponentialBackoff ==
    /\ IsPrefix(sleeps, << 2, 4, 8 >>)
    /\ Len(sleeps) = (IF nfail = MAX_RETRIES THEN MAX_RETRIES - 1 ELSE nfail)
    /\ pc = "fetch" => attempt = Len(sleeps) + 1
    /\ nfail = MAX_RETRIES => (pc = "sink" /\ records = << >>)

\* a call whose four attempts all failed
C23_Witness ==
    /\ pc = "sink" /\ nfail = MAX_RETRIES /\ nreq = MAX_RETRIES
    /\ sleeps = << 2, 4, 8 >>

\* C24: in the row the updater builds from a raw record that carries the
\* same raw value under every source label, a field other than gas_date is
\* null only when that raw value is null or the empty string (a missing
\* label reads as the empty string); a raw 0 or "0" is null in no column.
C24_ZeroNeverNull ==
    nout.done
        => \A c \in Range(DB_COLUMNS) \ { "gas_date" } :
               nout.rowAll[c] = PyNone => nin \in { PyNone, PyStr(<< >>) }

\* C25: a backfill run leaves a date of [START_DATE, today] out of its todo
\* list exactly when the output file holds a row with that gas_date at the
\* start of the run; and a date for which fetch_day returned no records
\* gets no row from the run, so that it stays on the list of later runs.
C25_SkipIffCovered ==
    [][ script = "backfill"
          => /\ runs' = runs + 1
                  => \A d \in START_DATE..today :
                         (d \notin Range(todo')) <=> HasRow(file, d)
             /\ \A i \in 1..Len(returned') :
                    (returned'[i] = << >> /\ ~HasRow(fileAtStart', todo'[i]))
                        => ~HasRow(file', todo'[i]) ]_vars

\* C26: for a raw record that carries the same raw value under every source
\* label, the row that reaches the store through the backfill (fetch_day of
\* fetch_iroquois_oac, the CSV file, load_csv) has the same columns and the
\* same value in every column as the row update_db.fetch_day builds.
C26_WritePathsAgree ==
    nout.done
        => /\ DOMAIN nout.viaCsv = DOMAIN nout.rowAll
           /\ \A c \in DOMAIN nout.rowAll : nout.viaCsv[c] = nout.rowAll[c]

====
